---- MODULE Spec2Model ----
(***************************************************************************)
(* Model of src/server.js: the GET /pending handler, the two outbound      *)
(* fetchers it awaits, and the hex heuristic guessHexesFromText.           *)
(*                                                                         *)
(* JavaScript strings are sequences of one-character strings, so that      *)
(* length, upper-casing and the regular expression scan are computed.      *)
(* A JavaScript value is a record [k, s, n]: k is its kind ("undef",       *)
(* "null", "str", "num"), s the characters of a string, n a number.        *)
(***************************************************************************)
EXTENDS Integers, Sequences, FiniteSets, TLC

\* ------------------------------------------------------------------ bounds
\* Longest array of raw messages the listing call returns in the model.
MaxMsgs == 2
\* Longest text, in building blocks, handed to guessHexesFromText alone.
MaxBlocks == 4

\* --------------------------------------------------------------- JS values
Undef == [k |-> "undef", s |-> <<>>, n |-> 0]
Null == [k |-> "null", s |-> <<>>, n |-> 0]
Str(chars) == [k |-> "str", s |-> chars, n |-> 0]
Num(x) == [k |-> "num", s |-> <<>>, n |-> x]

\* JavaScript truthiness: undefined, null, "" and 0 are falsy.
Truthy(v) == \/ v.k = "str" /\ v.s # <<>>
             \/ v.k = "num" /\ v.n # 0

\* a || b
Or(a, b) == IF Truthy(a) THEN a ELSE b

Rep(c, n) == [j \in 1..n |-> c]

\* String.prototype.toUpperCase on the letters a-z; other characters stay.
Lower == <<"a","b","c","d","e","f","g","h","i","j","k","l","m",
           "n","o","p","q","r","s","t","u","v","w","x","y","z">>
Upper == <<"A","B","C","D","E","F","G","H","I","J","K","L","M",
           "N","O","P","Q","R","S","T","U","V","W","X","Y","Z">>
UpperChar(c) == IF \E j \in 1..26 : Lower[j] = c
                THEN Upper[CHOOSE j \in 1..26 : Lower[j] = c]
                ELSE c
toUpperCase(chars) == [j \in 1..Len(chars) |-> UpperChar(chars[j])]

WAITING == <<"W","A","I","T","I","N","G">>

\* ------------------------------------------------- guessHexesFromText
\* [0-9a-fA-F]
HexDigits == {"0","1","2","3","4","5","6","7","8","9",
              "a","b","c","d","e","f","A","B","C","D","E","F"}
\* {64,} in the pattern
MinHexDigits == 64
\* h.length === 66
SenderLen == 66

\* Number of consecutive hex digits of text from position p on (greedy).
HexRun(text, p) ==
  LET stop == CHOOSE q \in p..(Len(text) + 1) :
                /\ q = Len(text) + 1 \/ text[q] \notin HexDigits
                /\ \A r \in p..(q - 1) : text[r] \in HexDigits
  IN stop - p

\* The pattern matches at position q: 0x and at least 64 hex digits.
MatchesAt(text, q) ==
  /\ q + 1 <= Len(text)
  /\ text[q] = "0" /\ text[q + 1] = "x"
  /\ HexRun(text, q + 2) >= MinHexDigits

\* text.match(/0x[0-9a-fA-F]{64,}/g) || [] : the matches from position p on,
\* left to right, each as long as it can be, the scan resuming after each.
RECURSIVE MatchFrom(_, _)
MatchFrom(text, p) ==
  IF \A q \in p..Len(text) : ~MatchesAt(text, q) THEN <<>>
  ELSE LET q == CHOOSE q \in p..Len(text) :
                  MatchesAt(text, q) /\ \A r \in p..(q - 1) : ~MatchesAt(text, r)
           n == HexRun(text, q + 2)
       IN <<SubSeq(text, q, q + 1 + n)>> \o MatchFrom(text, q + 2 + n)

hexes(text) == MatchFrom(text, 1)

\* [...new Set(hexes)] : first occurrences, in order.
uniq(hs) ==
  LET keep(j) == \A l \in 1..(j - 1) : hs[l] # hs[j]
      F[j \in 0..Len(hs)] ==
        IF j = 0 THEN <<>>
        ELSE IF keep(j) THEN Append(F[j - 1], hs[j]) ELSE F[j - 1]
  IN F[Len(hs)]

\* h => h.length === 66
IsSender(h) == Len(h) = SenderLen

IsPayloadGE(h) == Len(h) >= SenderLen /\ Len(h) % 2 = 0
\* h => h.length > 66 && h.length % 2 === 0
IsPayload(h) == Len(h) > SenderLen /\ Len(h) % 2 = 0

\* arr.filter(pred)[0], or null when the filtered array is empty; pred is
\* given as the set of the indices of hs it accepts.
FirstOr(hs, accepted) ==
  IF accepted = {} THEN Null
  ELSE Str(hs[CHOOSE j \in accepted : \A l \in accepted : j <= l])

guessHexesFromText(text) ==
  LET u == uniq(hexes(text))
  IN [sender32 |-> FirstOr(u, {j \in 1..Len(u) : IsSender(u[j])}),
      payload |-> FirstOr(u, {j \in 1..Len(u) : IsPayload(u[j])})]

\* ------------------------------------------------------- configuration
\* process.env.OWNER lower-cased; the process exits when it is empty, so a
\* running server has a non-empty owner.
OWNER == <<"0","x","f","0","0","d">>
\* LZ_TX_BASE, the default of line 14.
LZ_TX_BASE ==
  <<"h","t","t","p","s",":","/","/","t","e","s","t",
    "n","e","t",".","l","a","y","e","r","z","e","r",
    "o","s","c","a","n",".","c","o","m","/","t","x">>

\* ----------------------------------------------------- outbound fetchers
\* What the remote end does with the listing call:
\*   reject      fetch() rejects (timeout, DNS, network)
\*   notOk       a response whose status is not 2xx
\*   badJson     r.json() rejects: the body is not JSON
\*   jsonNull    the body is the JSON value null (j.messages throws)
\*   noMessages  a JSON object without a messages member
\*   nonIterable a JSON object whose messages member is a number
\*   ok          a JSON object whose messages member is an array
ListFailures == {"reject", "notOk", "badJson"}
ListOutcomes == ListFailures \cup {"jsonNull", "noMessages", "nonIterable", "ok"}

\* A bug that lets the failure escape instead of returning [].
fetchMessagesByOwnerRethrow(outcome, ms) ==
  IF outcome \in ListFailures \cup {"jsonNull"}
  THEN [threw |-> TRUE, iterable |-> FALSE, arr |-> <<>>]
  ELSE IF outcome = "nonIterable"
  THEN [threw |-> FALSE, iterable |-> FALSE, arr |-> <<>>]
  ELSE [threw |-> FALSE, iterable |-> TRUE,
        arr |-> IF outcome = "ok" THEN ms ELSE <<>>]

\* fetchMessagesByOwner(owner, page, limit): everything thrown inside the try
\* is caught and [] returned; otherwise j.messages || [].
fetchMessagesByOwner(outcome, ms) ==
  IF outcome \in ListFailures \cup {"jsonNull"}
  THEN [threw |-> FALSE, iterable |-> TRUE, arr |-> <<>>]
  ELSE IF outcome = "nonIterable"
  THEN [threw |-> FALSE, iterable |-> FALSE, arr |-> <<>>]
  ELSE [threw |-> FALSE, iterable |-> TRUE,
        arr |-> IF outcome = "ok" THEN ms ELSE <<>>]

\* What the remote end does with a detail-page fetch.
FetchFailures == {"reject", "notOk"}
FetchOutcomes == FetchFailures \cup {"ok"}

\* fetchTxHtml(txHash): null on a rejection or a non-2xx status, else the body.
fetchTxHtml(outcome, body) ==
  IF outcome \in FetchFailures THEN Null ELSE Str(body)

\* ------------------------------------------------ one loop iteration
\* (m?.executorResult?.status) || (m?.executorStatus) || null
execStatusOf(m) == Or(Or(m.executorResult_status, m.executorStatus), Null)

\* execStatus.toUpperCase is not a function: a truthy value that is no string.
ThrowsOnUpper(es) == Truthy(es) /\ es.k # "str"

\* !( !execStatus || execStatus.toUpperCase() !== "WAITING" )
IsWaiting(es) == Truthy(es) /\ toUpperCase(es.s) = WAITING

\* m.srcTxHash || m.txHash || m?.tx?.txHash
txHashOf(m) == Or(Or(m.srcTxHash, m.txHash), m.tx_txHash)
\* m.sender32 || m.sender || null
senderOf(m) == Or(Or(m.sender32, m.sender), Null)
\* m.payload || m.payloadHex || m.data || null
payloadOf(m) == Or(Or(Or(m.payload, m.payloadHex), m.data), Null)
\* m.dstEid || m.dst_eid || m.dst || null
dstEidOf(m) == Or(Or(Or(m.dstEid, m.dst_eid), m.dst), Null)

\* A bug that fetches the page for every pending record.
NeedsFetchAlways(sender32, payload) == TRUE
\* !sender32 || !payload
NeedsFetch(sender32, payload) == ~Truthy(sender32) \/ ~Truthy(payload)

\* A bug that lets the page's candidate replace a value already resolved.
FillOverwrite(cur, guess) == IF Truthy(guess) THEN guess ELSE cur
\* if(!cur && guess) cur = guess
Fill(cur, guess) == IF ~Truthy(cur) /\ Truthy(guess) THEN guess ELSE cur

\* The object pushed onto out. The hashes of the model's records are strings,
\* so the template literal is a concatenation.
Summary(m, es, h, s, p) ==
  [srcTxHash |-> h, dstEid |-> dstEidOf(m), sender32 |-> s, payload |-> p,
   statusSummary |-> es, lzTxPage |-> LZ_TX_BASE \o <<"/">> \o h.s]

NoGuess == [sender32 |-> Null, payload |-> Null]

\* ------------------------------------------------------------- inputs
\* Transaction hashes, senders and payloads as the listing API may give them.
H1 == <<"0","x","1">>
H2 == <<"0","x","2">>
H3 == <<"0","x","3">>
\* a 32-byte sender
S66a == <<"0","x">> \o Rep("a", MinHexDigits)
\* a 20-byte style address, as m.sender may hold
ShortSender == <<"0","x","a","b">>
PayField == <<"0","x","c","c">>

\* Tokens a detail page may hold.
S66b == <<"0","x">> \o Rep("B", MinHexDigits)
P130 == <<"0","x">> \o Rep("c", 2 * MinHexDigits)
P68 == <<"0","x">> \o Rep("d", MinHexDigits + 2)

\* Bodies of the detail page: two candidates; none; a payload only; empty;
\* a payload, then the same sender twice and another one.
Docs == << <<"<">> \o S66b \o <<" ">> \o P130 \o <<">">>,
           <<"n","o"," ","0","x","1","2">>,
           <<"p","=">> \o P68,
           <<>>,
           P68 \o <<" ">> \o S66a \o <<",">> \o S66a \o <<",">> \o S66b >>

\* A raw record with no member at all.
M0 == [executorResult_status |-> Undef, executorStatus |-> Undef,
       srcTxHash |-> Undef, txHash |-> Undef, tx_txHash |-> Undef,
       sender32 |-> Undef, sender |-> Undef,
       payload |-> Undef, payloadHex |-> Undef, data |-> Undef,
       dstEid |-> Undef, dst_eid |-> Undef, dst |-> Undef]

\* The raw records the listing call may return.
Messages ==
  { \* pending, every field present
    [M0 EXCEPT !.executorResult_status = Str(<<"w","a","i","t","i","n","g">>),
               !.srcTxHash = Str(H1), !.sender32 = Str(S66a),
               !.payload = Str(PayField), !.dstEid = Num(40161)],
    \* pending, neither sender nor payload
    [M0 EXCEPT !.executorStatus = Str(WAITING), !.txHash = Str(H2)],
    \* pending, sender only, hash in the nested tx object
    [M0 EXCEPT !.executorResult_status = Str(<<"W","a","i","t","i","n","g">>),
               !.tx_txHash = Str(H3), !.sender = Str(ShortSender),
               !.dst_eid = Num(40231)],
    \* pending, payload only, two hash members
    [M0 EXCEPT !.executorStatus = Str(WAITING), !.srcTxHash = Str(H1),
               !.txHash = Str(H2), !.payloadHex = Str(PayField)],
    \* pending, an empty nested status falls through to the flat one
    [M0 EXCEPT !.executorResult_status = Str(<<>>),
               !.executorStatus = Str(<<"w","a","i","t","i","n","g">>),
               !.srcTxHash = Str(H3), !.sender32 = Str(S66a),
               !.data = Str(PayField)],
    \* delivered
    [M0 EXCEPT !.executorStatus = Str(<<"S","U","C","C","E","S","S">>),
               !.txHash = Str(H2)],
    \* the nested status wins over the flat one
    [M0 EXCEPT !.executorResult_status = Str(<<"S","U","C","C","E","S","S">>),
               !.executorStatus = Str(WAITING), !.txHash = Str(H3)],
    \* no status
    [M0 EXCEPT !.txHash = Str(H2)],
    \* pending, no hash
    [M0 EXCEPT !.executorStatus = Str(WAITING)],
    \* a status that is a number
    [M0 EXCEPT !.executorStatus = Num(1), !.txHash = Str(H2)] }

RECURSIVE SeqsUpTo(_, _)
SeqsUpTo(S, n) ==
  IF n = 0 THEN {<<>>}
  ELSE LET shorter == SeqsUpTo(S, n - 1)
       IN shorter \cup {Append(q, e) : q \in shorter, e \in S}

MsgSeqs == SeqsUpTo(Messages, MaxMsgs)

\* Texts handed to guessHexesFromText alone: up to MaxBlocks blocks joined.
Blocks == {S66a, S66b, P130, <<"g">>, <<"a">>, <<"0","x">>, <<"0">>}

RECURSIVE Join(_)
Join(bs) == IF bs = <<>> THEN <<>> ELSE Head(bs) \o Join(Tail(bs))

Texts == {Join(bs) : bs \in SeqsUpTo(Blocks, MaxBlocks)}

\* -------------------------------------------------------------- state
VARIABLES
  pc,          \* where the handler is: idle, listing, loop, fetching, done, off
  listOutcome, \* what the listing call met
  msgs,        \* the array the listing call returned
  i,           \* index in msgs of the record the loop is at
  out,         \* the summaries pushed so far
  src,         \* for each summary, the index of its record
  fetchLog,    \* the fetchTxHtml calls: record index, outcome, body
  listCalls,   \* fetchMessagesByOwner calls issued
  inflight,    \* outbound calls awaiting their answer
  resp,        \* the response sent
  err,         \* what was thrown into the handler's catch, and at which record
  text,        \* the input of guessHexesFromText checked alone
  g,           \* its result
  gpc          \* ready, done, off

vars == <<pc, listOutcome, msgs, i, out, src, fetchLog, listCalls, inflight,
          resp, err, text, g, gpc>>

NoResp == [status |-> 0, ok |-> FALSE, hasResults |-> FALSE, owner |-> <<>>,
           count |-> 0, results |-> <<>>]
\* res.json({ ok:true, owner, count: out.length, results: out })
Resp200(o) == [status |-> 200, ok |-> TRUE, hasResults |-> TRUE, owner |-> OWNER,
               count |-> Len(o), results |-> o]
\* res.status(500).json({ ok:false, error: e.message })
Resp500 == [status |-> 500, ok |-> FALSE, hasResults |-> FALSE, owner |-> <<>>,
            count |-> 0, results |-> <<>>]

NoErr == [kind |-> "none", at |-> 0]

Init ==
  /\ pc = "idle" /\ listOutcome = "none" /\ msgs = <<>> /\ i = 0
  /\ out = <<>> /\ src = <<>> /\ fetchLog = <<>>
  /\ listCalls = 0 /\ inflight = 0 /\ resp = NoResp /\ err = NoErr
  /\ text = <<>> /\ g = NoGuess /\ gpc = "off"

\* app.get("/pending"): the handler runs to its first await.
Request ==
  /\ pc = "idle"
  /\ pc' = "listing"
  /\ listCalls' = listCalls + 1
  /\ inflight' = inflight + 1
  /\ UNCHANGED <<listOutcome, msgs, i, out, src, fetchLog, resp, err, text, g, gpc>>

\* The listing call answers; const out = []; the loop is entered.
ListReturn ==
  /\ pc = "listing"
  /\ \E outcome \in ListOutcomes :
       \E ms \in (IF outcome = "ok" THEN MsgSeqs ELSE {<<>>}) :
         LET r == fetchMessagesByOwner(outcome, ms)
         IN /\ listOutcome' = outcome
            /\ inflight' = inflight - 1
            /\ IF r.threw
               THEN /\ pc' = "done" /\ resp' = Resp500
                    /\ err' = [kind |-> "listing", at |-> 0]
                    /\ UNCHANGED <<msgs, i>>
               ELSE IF ~r.iterable
               THEN /\ pc' = "done" /\ resp' = Resp500
                    /\ err' = [kind |-> "notIterable", at |-> 0]
                    /\ UNCHANGED <<msgs, i>>
               ELSE /\ pc' = "loop" /\ msgs' = r.arr /\ i' = 1
                    /\ UNCHANGED <<resp, err>>
  /\ UNCHANGED <<out, src, fetchLog, listCalls, text, g, gpc>>

AtRecord == pc = "loop" /\ i <= Len(msgs)

\* Passes both continue statements.
Passes(m) ==
  /\ ~ThrowsOnUpper(execStatusOf(m))
  /\ IsWaiting(execStatusOf(m))
  /\ Truthy(txHashOf(m))

\* continue: the status is falsy or not WAITING, or no hash resolves.
Skip ==
  /\ AtRecord
  /\ ~ThrowsOnUpper(execStatusOf(msgs[i]))
  /\ ~Passes(msgs[i])
  /\ i' = i + 1
  /\ UNCHANGED <<pc, listOutcome, msgs, out, src, fetchLog, listCalls, inflight,
                 resp, err, text, g, gpc>>

\* execStatus.toUpperCase() throws a TypeError; the handler's catch answers 500.
Throw ==
  /\ AtRecord
  /\ ThrowsOnUpper(execStatusOf(msgs[i]))
  /\ pc' = "done"
  /\ resp' = Resp500
  /\ err' = [kind |-> "status", at |-> i]
  /\ UNCHANGED <<listOutcome, msgs, i, out, src, fetchLog, listCalls, inflight,
                 text, g, gpc>>

\* Sender and payload both come from the record: push without fetching.
EmitDirect ==
  /\ AtRecord
  /\ Passes(msgs[i])
  /\ LET m == msgs[i]
     IN /\ ~NeedsFetch(senderOf(m), payloadOf(m))
        /\ out' = Append(out, Summary(m, execStatusOf(m), txHashOf(m),
                                      senderOf(m), payloadOf(m)))
  /\ src' = Append(src, i)
  /\ i' = i + 1
  /\ UNCHANGED <<pc, listOutcome, msgs, fetchLog, listCalls, inflight, resp, err,
                 text, g, gpc>>

\* A bug that issues the page fetch without awaiting it (fan-out).
FetchStartNoAwait ==
  /\ AtRecord
  /\ Passes(msgs[i])
  /\ NeedsFetch(senderOf(msgs[i]), payloadOf(msgs[i]))
  /\ fetchLog' = Append(fetchLog, [idx |-> i, outcome |-> "pending", doc |-> 0])
  /\ inflight' = inflight + 1
  /\ i' = i + 1
  /\ UNCHANGED <<pc, listOutcome, msgs, out, src, listCalls, resp, err, text, g, gpc>>

\* await fetchTxHtml(txHash) is issued.
FetchStart ==
  /\ AtRecord
  /\ Passes(msgs[i])
  /\ NeedsFetch(senderOf(msgs[i]), payloadOf(msgs[i]))
  /\ pc' = "fetching"
  /\ fetchLog' = Append(fetchLog, [idx |-> i, outcome |-> "pending", doc |-> 0])
  /\ inflight' = inflight + 1
  /\ UNCHANGED <<listOutcome, msgs, i, out, src, listCalls, resp, err, text, g, gpc>>

\* The page fetch answers; the blanks are filled from the page and the
\* summary is pushed.
FetchReturn ==
  /\ pc = "fetching"
  /\ \E outcome \in FetchOutcomes :
       \E d \in (IF outcome = "ok" THEN 1..Len(Docs) ELSE {0}) :
         LET m == msgs[i]
             html == fetchTxHtml(outcome, IF d = 0 THEN <<>> ELSE Docs[d])
             gs == IF Truthy(html) THEN guessHexesFromText(html.s) ELSE NoGuess
         IN /\ out' = Append(out, Summary(m, execStatusOf(m), txHashOf(m),
                                          Fill(senderOf(m), gs.sender32),
                                          Fill(payloadOf(m), gs.payload)))
            /\ fetchLog' = [fetchLog EXCEPT ![Len(fetchLog)] =
                              [idx |-> i, outcome |-> outcome, doc |-> d]]
  /\ src' = Append(src, i)
  /\ inflight' = inflight - 1
  /\ i' = i + 1
  /\ pc' = "loop"
  /\ UNCHANGED <<listOutcome, msgs, listCalls, resp, err, text, g, gpc>>

\* The loop is over: res.json(...).
Respond ==
  /\ pc = "loop"
  /\ i > Len(msgs)
  /\ pc' = "done"
  /\ resp' = Resp200(out)
  /\ UNCHANGED <<listOutcome, msgs, i, out, src, fetchLog, listCalls, inflight,
                 err, text, g, gpc>>

Next ==
  \/ Request
  \/ ListReturn
  \/ Skip
  \/ Throw
  \/ EmitDirect
  \/ FetchStart
  \/ FetchReturn
  \/ Respond

Spec == Init /\ [][Next]_vars

\* ------------------------------------ guessHexesFromText checked alone
InitGuess ==
  /\ pc = "off" /\ listOutcome = "none" /\ msgs = <<>> /\ i = 0
  /\ out = <<>> /\ src = <<>> /\ fetchLog = <<>>
  /\ listCalls = 0 /\ inflight = 0 /\ resp = NoResp /\ err = NoErr
  /\ text \in Texts /\ g = NoGuess /\ gpc = "ready"

Guess ==
  /\ gpc = "ready"
  /\ g' = guessHexesFromText(text)
  /\ gpc' = "done"
  /\ UNCHANGED <<pc, listOutcome, msgs, i, out, src, fetchLog, listCalls,
                 inflight, resp, err, text>>

NextGuess == Guess

SpecGuess == InitGuess /\ [][NextGuess]_vars

\* ====================================================== the claims
\* What the claims call things, stated apart from the handler's own code.

\* Two characters equal up to letter case.
ClaimCaseEq(a, b) ==
  a = b \/ \E j \in 1..26 : {a, b} = {Lower[j], Upper[j]}

\* The status a record resolves to: the nested one first, then the flat one.
ClaimStatus(m) ==
  IF Truthy(m.executorResult_status) THEN m.executorResult_status
  ELSE m.executorStatus

\* The hash a record resolves to: srcTxHash, then txHash, then tx.txHash.
ClaimHash(m) ==
  CASE Truthy(m.srcTxHash) -> m.srcTxHash
    [] Truthy(m.txHash) -> m.txHash
    [] OTHER -> m.tx_txHash

\* A qualifying record: status WAITING in any letter case, and a hash.
ClaimQualifies(m) ==
  /\ ClaimStatus(m).k = "str"
  /\ Len(ClaimStatus(m).s) = Len(WAITING)
  /\ \A j \in 1..Len(WAITING) : ClaimCaseEq(ClaimStatus(m).s[j], WAITING[j])
  /\ Truthy(ClaimHash(m))

\* Sender and payload as the record's own fields give them, null if none does.
ClaimFieldSender(m) ==
  CASE Truthy(m.sender32) -> m.sender32
    [] Truthy(m.sender) -> m.sender
    [] OTHER -> Null
ClaimFieldPayload(m) ==
  CASE Truthy(m.payload) -> m.payload
    [] Truthy(m.payloadHex) -> m.payloadHex
    [] Truthy(m.data) -> m.data
    [] OTHER -> Null

\* The indices of the qualifying records of ms, in order.
ClaimQualifying(ms) ==
  LET F[j \in 0..Len(ms)] ==
        IF j = 0 THEN <<>>
        ELSE IF ClaimQualifies(ms[j]) THEN Append(F[j - 1], j) ELSE F[j - 1]
  IN F[Len(ms)]

\* 0x followed by hex digits only.
ClaimIsHex0x(chars) ==
  /\ Len(chars) >= 2 /\ chars[1] = "0" /\ chars[2] = "x"
  /\ \A j \in 3..Len(chars) : chars[j] \in HexDigits

\* The records whose loop iteration is over, or was ended by an exception.
Handled == {k \in 1..Len(msgs) : k < i \/ err.at = k}
\* The records fetchTxHtml was called for.
Fetched == {fetchLog[f].idx : f \in 1..Len(fetchLog)}

\* C1: when the listing call fails (the transport rejects, the status is not a
\* success, the body is not JSON), GET /pending answers 200 with ok true,
\* results [] and count 0, never 500, and no detail page is fetched.
C1_ListingFailureDegrades ==
  listOutcome \in ListFailures =>
    /\ fetchLog = <<>>
    /\ resp.status # 500
    /\ pc \in {"loop", "done"}
    /\ pc = "done" =>
         /\ resp.status = 200 /\ resp.ok
         /\ resp.hasResults /\ resp.results = <<>> /\ resp.count = 0

C1_Witness ==
  pc = "done" /\ listOutcome = "badJson" /\ resp.status = 200 /\ listCalls = 1

\* C2: every summary of the response has statusSummary equal to the upper-case
\* string WAITING, whatever the letter case of the record's status.
C2_StatusSummaryUppercased ==
  resp.status = 200 =>
    \A k \in 1..Len(resp.results) : resp.results[k].statusSummary = Str(WAITING)

\* C3: for every array of raw records the listing call returns, the results of
\* the response are one summary per qualifying record, in input order, each
\* with srcTxHash the resolved hash, and count is their number.
C3_ResultsAreQualifyingSubsequence ==
  (pc = "done" /\ listOutcome = "ok") =>
    LET q == ClaimQualifying(msgs)
    IN /\ resp.status = 200 /\ resp.hasResults
       /\ Len(resp.results) = Len(q)
       /\ \A k \in 1..Len(q) : resp.results[k].srcTxHash = ClaimHash(msgs[q[k]])
       /\ src = q
       /\ resp.count = Len(resp.results)

\* Apart from the exception of a non-string status: in a request that throws
\* nothing, the results are the qualifying subsequence.
ResultsWhenNothingThrown ==
  (pc = "done" /\ listOutcome = "ok" /\ err.kind = "none") =>
    LET q == ClaimQualifying(msgs)
    IN /\ resp.status = 200 /\ resp.hasResults
       /\ Len(resp.results) = Len(q)
       /\ \A k \in 1..Len(q) : resp.results[k].srcTxHash = ClaimHash(msgs[q[k]])
       /\ src = q
       /\ resp.count = Len(resp.results)

\* C4: a record that does not qualify (no status, a status other than WAITING,
\* a status that is no string, no hash) yields no summary and no page fetch and
\* does not turn the request into an error.
C4_NonQualifyingDroppedSilently ==
  \A k \in Handled :
    ~ClaimQualifies(msgs[k]) =>
      /\ \A j \in 1..Len(src) : src[j] # k
      /\ k \notin Fetched
      /\ err.at # k
      /\ pc = "done" => (resp.status = 200 /\ resp.ok)

\* C5: fetchTxHtml is never called for a record whose sender and payload both
\* come from its own fields; it is called only when one of them is missing.
C5_NoFetchWhenBothResolved ==
  \A k \in Fetched :
    ~Truthy(ClaimFieldSender(msgs[k])) \/ ~Truthy(ClaimFieldPayload(msgs[k]))

C5_Witness ==
  /\ pc = "done"
  /\ \E k \in 1..Len(src) :
       /\ Truthy(ClaimFieldSender(msgs[src[k]]))
       /\ Truthy(ClaimFieldPayload(msgs[src[k]]))
       /\ src[k] \notin Fetched
  /\ Fetched # {}

\* C6: when the page is fetched for a record with exactly one of sender and
\* payload resolved from its fields, the summary keeps that value whatever the
\* page holds, and the other one is null or the extractor's result.
C6_FetchKeepsResolvedValue ==
  \A k \in 1..Len(out) :
    \A f \in 1..Len(fetchLog) :
      (fetchLog[f].idx = src[k] /\ fetchLog[f].outcome # "pending") =>
        LET m == msgs[src[k]]
            page == IF fetchLog[f].outcome = "ok" /\ Docs[fetchLog[f].doc] # <<>>
                    THEN guessHexesFromText(Docs[fetchLog[f].doc])
                    ELSE NoGuess
        IN /\ Truthy(ClaimFieldSender(m)) =>
                /\ out[k].sender32 = ClaimFieldSender(m)
                /\ out[k].payload \in {Null, page.payload}
           /\ Truthy(ClaimFieldPayload(m)) =>
                /\ out[k].payload = ClaimFieldPayload(m)
                /\ out[k].sender32 \in {Null, page.sender32}

C6_Witness ==
  \E k \in 1..Len(out) :
    \E f \in 1..Len(fetchLog) :
      /\ fetchLog[f].idx = src[k] /\ fetchLog[f].outcome = "ok"
      /\ Truthy(ClaimFieldSender(msgs[src[k]]))
      /\ Truthy(guessHexesFromText(Docs[fetchLog[f].doc]).sender32)
      /\ guessHexesFromText(Docs[fetchLog[f].doc]).sender32
           # ClaimFieldSender(msgs[src[k]])
      /\ out[k].sender32 = ClaimFieldSender(msgs[src[k]])
      /\ out[k].payload = guessHexesFromText(Docs[fetchLog[f].doc]).payload
      /\ Truthy(out[k].payload)

\* C7: in every summary sender32 is null or a 0x hex string of 66 characters
\* and payload is null or a 0x hex string of even length, whether the value
\* comes from the record's fields or from the extractor.
C7_SenderPayloadWellFormed ==
  \A k \in 1..Len(out) :
    /\ \/ out[k].sender32 = Null
       \/ /\ out[k].sender32.k = "str"
          /\ Len(out[k].sender32.s) = SenderLen
          /\ ClaimIsHex0x(out[k].sender32.s)
    /\ \/ out[k].payload = Null
       \/ /\ out[k].payload.k = "str"
          /\ Len(out[k].payload.s) % 2 = 0
          /\ ClaimIsHex0x(out[k].payload.s)

\* The same for the values the extractor supplied: these are well formed.
ExtractedValuesWellFormed ==
  \A k \in 1..Len(out) :
    /\ (~Truthy(ClaimFieldSender(msgs[src[k]])) /\ out[k].sender32 # Null) =>
         /\ Len(out[k].sender32.s) = SenderLen
         /\ ClaimIsHex0x(out[k].sender32.s)
    /\ (~Truthy(ClaimFieldPayload(msgs[src[k]])) /\ out[k].payload # Null) =>
         /\ Len(out[k].payload.s) % 2 = 0
         /\ ClaimIsHex0x(out[k].payload.s)

\* A token of the text: 0x and 64 or more hex digits, from position q, as long
\* as it can be (the character after it, if any, is no hex digit).
ClaimTokenAt(t, q, tok) ==
  /\ Len(tok) >= 2 + MinHexDigits
  /\ q + Len(tok) - 1 <= Len(t)
  /\ SubSeq(t, q, q + Len(tok) - 1) = tok
  /\ ClaimIsHex0x(tok)
  /\ q + Len(tok) > Len(t) \/ t[q + Len(tok)] \notin HexDigits

\* v is the first element of toks whose length is in lens, or null if none.
ClaimFirstWith(v, toks, lens) ==
  IF \A j \in 1..Len(toks) : Len(toks[j]) \notin lens
  THEN v = Null
  ELSE \E j \in 1..Len(toks) :
         /\ v = Str(toks[j])
         /\ Len(toks[j]) \in lens
         /\ \A l \in 1..(j - 1) : Len(toks[l]) \notin lens

\* Exactly 32 bytes of hex after 0x.
ClaimSenderLens(t) == {2 + 2 * 32}
\* Longer than that, and even.
ClaimPayloadLens(t) == {n \in (2 + 2 * 32 + 1)..Len(t) : n % 2 = 0}

\* C8: guessHexesFromText returns as sender32 the first token, in scan order,
\* of exactly 66 characters and as payload the first token longer than 66
\* characters of even length, each null when no token fits, so the two are
\* never the same string.
C8_GuessPicksFirstByLength ==
  gpc = "done" =>
    LET toks == hexes(text)
    IN /\ \A j \in 1..Len(toks) :
            \E q \in 1..Len(text) : ClaimTokenAt(text, q, toks[j])
       /\ (\E q \in 1..Len(text) : \E n \in (2 + MinHexDigits)..Len(text) :
             n <= Len(text) - q + 1
             /\ ClaimTokenAt(text, q, SubSeq(text, q, q + n - 1)))
          => toks # <<>>
       /\ ClaimFirstWith(g.sender32, toks, ClaimSenderLens(text))
       /\ ClaimFirstWith(g.payload, toks, ClaimPayloadLens(text))
       /\ toks = <<>> => (g.sender32 = Null /\ g.payload = Null)
       /\ ~(g.sender32 # Null /\ g.sender32 = g.payload)

C8_Witness ==
  /\ gpc = "done"
  /\ g.sender32 = Str(S66b)
  /\ g.payload = Str(P130)
  /\ Len(hexes(text)) = 2

\* C9: in one request exactly one listing call is issued, then at most one
\* page fetch per qualifying record, in input order, never repeated, the next
\* one issued only after the one before has answered: at most one outbound
\* call is in flight at any time.
C9_OutboundCallsSequential ==
  /\ listCalls <= 1
  /\ pc # "idle" => listCalls = 1
  /\ inflight <= 1
  /\ pc \in {"idle", "listing"} => fetchLog = <<>>
  /\ pc = "listing" => inflight = 1
  /\ \A f \in 1..Len(fetchLog) :
       /\ fetchLog[f].idx \in 1..Len(msgs)
       /\ ClaimQualifies(msgs[fetchLog[f].idx])
       /\ \A f2 \in (f + 1)..Len(fetchLog) : fetchLog[f].idx < fetchLog[f2].idx
       /\ fetchLog[f].outcome = "pending" =>
            (f = Len(fetchLog) /\ pc = "fetching" /\ inflight = 1)

C9_Witness ==
  /\ pc = "fetching"
  /\ Len(fetchLog) = 2
  /\ fetchLog[1].outcome \in FetchFailures
  /\ fetchLog[2].outcome = "pending"
  /\ inflight = 1 /\ listCalls = 1

\* C10: when the page fetch of a qualifying record fails, the summary is still
\* pushed with what the fields resolved and null for the rest, later records
\* are still handled, and the response is 200 with ok true.
C10_FetchFailureNeverSurfaces ==
  \A f \in 1..Len(fetchLog) :
    fetchLog[f].outcome \in FetchFailures =>
      LET k == fetchLog[f].idx
      IN /\ \E j \in 1..Len(out) :
              /\ src[j] = k
              /\ out[j].sender32 = ClaimFieldSender(msgs[k])
              /\ out[j].payload = ClaimFieldPayload(msgs[k])
         /\ pc = "done" =>
              /\ resp.status = 200 /\ resp.ok
              /\ resp.results = out
              /\ \A k2 \in (k + 1)..Len(msgs) : k2 \in Handled

\* Apart from the exception of a non-string status: a failed page fetch
\* itself throws nothing and its summary is pushed.
FetchFailureAbsorbed ==
  \A f \in 1..Len(fetchLog) :
    fetchLog[f].outcome \in FetchFailures =>
      LET k == fetchLog[f].idx
      IN /\ \E j \in 1..Len(out) :
              /\ src[j] = k
              /\ out[j].sender32 = ClaimFieldSender(msgs[k])
              /\ out[j].payload = ClaimFieldPayload(msgs[k])
         /\ err.at # k
         /\ (pc = "done" /\ err.kind = "none") =>
              /\ resp.status = 200 /\ resp.ok
              /\ resp.results = out

====
